---- MODULE Spec2Model ----
(***************************************************************************)
(* Model of the backend gateway of vib-play (server part of                *)
(* src/unnamed/part_002, lines 1090-1655) and of the provider registry     *)
(* (src/utils/providers.js): rate-limiting middleware, conversation store  *)
(* helpers and the /api/ask-ai fallback loop.                              *)
(*                                                                         *)
(* Text (prompts, replies, messages) is a sequence of one-character        *)
(* strings or of fixed fragments, so that trim() and template literals are *)
(* computed.  An absent JSON field is a field missing from the body        *)
(* record; an unset environment variable is the value NoVal.               *)
(* Time is Date.now() in milliseconds, counted from process start.         *)
(* The model follows one request at a time: the synchronous part of a      *)
(* handler is one step, and every await of /api/ask-ai is a further step.  *)
(*                                                                         *)
(* The AskAI client component (src/unnamed/part_002, lines 96-348) is      *)
(* modelled by the variable client: React state is kept twice, as the      *)
(* current value and as the value of the committed render, which is what   *)
(* the event handlers of that render read.                                 *)
(***************************************************************************)
EXTENDS Integers, Sequences, FiniteSets, TLC

NoVal == "undefined"

\* ---------------------------------------------------------------- bounds
MaxReq == 2
MaxLimReq == 3
MaxTime == 5400000
MaxStored == 49
MaxMsgs == 3
MaxCalls == 2

\* ------------------------------------------------------- program constants
RATE_LIMIT_DEFAULT == 100
WINDOW_MS == 3600000
MINUTE_MS == 60000
HISTORY_LIMIT == 50
MAX_TOKENS_FALLBACK == 8000
\* temperatures are counted in tenths: 7 is 0.7
TEMPERATURE_FALLBACK == 7
GEMINI_DEFAULT_MODEL == "gemini-1.5-pro"
GEMINI_MAX_OUTPUT_TOKENS == 8192
\* temperatures are counted in tenths: 7 is 0.7
GEMINI_TEMPERATURE == 7

\* ------------------------------------------------------------ JS helpers
Truthy(s) == s # NoVal /\ s # ""

Has(body, k) == k \in DOMAIN body

Field(body, k) == IF Has(body, k) THEN body[k] ELSE NoVal

IsSpace(c) == c \in {" ", "\t", "\n"}

RECURSIVE TrimStart(_)
TrimStart(s) ==
    IF s = <<>> THEN <<>>
    ELSE IF IsSpace(Head(s)) THEN TrimStart(Tail(s)) ELSE s

RECURSIVE TrimEnd(_)
TrimEnd(s) ==
    IF s = <<>> THEN <<>>
    ELSE IF IsSpace(s[Len(s)]) THEN TrimEnd(SubSeq(s, 1, Len(s) - 1)) ELSE s

Trim(s) == TrimEnd(TrimStart(s))

\* Math.ceil(a / b) for b > 0
CeilDiv(a, b) == IF a >= 0 THEN (a + b - 1) \div b ELSE -((-a) \div b)

\* variant: the newest timestamp instead of the oldest
SeqMin_Newest(s) == s[Len(s)]

RECURSIVE SeqMin(_)
\* Math.min(...s) of a non-empty list
SeqMin(s) ==
    IF Len(s) = 1 THEN s[1]
    ELSE LET m == SeqMin(Tail(s)) IN IF Head(s) < m THEN Head(s) ELSE m

RECURSIVE Filter_Inclusive(_, _)
\* variant: keeps a timestamp that is exactly one window old
Filter_Inclusive(s, cutoff) ==
    IF s = <<>> THEN <<>>
    ELSE IF Head(s) >= cutoff THEN <<Head(s)>> \o Filter_Inclusive(Tail(s), cutoff)
         ELSE Filter_Inclusive(Tail(s), cutoff)

RECURSIVE Filter(_, _)
\* list.filter(timestamp => timestamp > cutoff)
Filter(s, cutoff) ==
    IF s = <<>> THEN <<>>
    ELSE IF Head(s) > cutoff THEN <<Head(s)>> \o Filter(Tail(s), cutoff)
         ELSE Filter(Tail(s), cutoff)

\* a JS number: NaN or an integer
NaN == [nan |-> TRUE, n |-> 0]

Num(k) == [nan |-> FALSE, n |-> k]

\* parseInt of the strings used as environment values (undefined gives NaN)
ParseInt(s) ==
    CASE s = "0" -> Num(0)
      [] s = "1" -> Num(1)
      [] s = "2" -> Num(2)
      [] s = "3" -> Num(3)
      [] s = "-1" -> Num(-1)
      [] s = "4000" -> Num(4000)
      [] OTHER -> NaN

\* parseFloat of the strings used as environment values, in tenths
ParseFloat(s) ==
    CASE s = "0" -> Num(0)
      [] s = "0.2" -> Num(2)
      [] OTHER -> NaN

\* x || d for a JS number x: NaN and 0 are falsy
OrDefault(x, d) == IF x.nan \/ x.n = 0 THEN d ELSE x.n

\* ---------------------------------------------------- provider registry
ProviderKeys == <<"openai", "openrouter", "xai", "groq", "perplexity", "gemini">>

PROVIDERS ==
    [openai     |-> [name |-> "OpenAI", apiKeyEnv |-> "OPENAI_API_KEY",
                     modelEnv |-> "OPENAI_MODEL", defaultModel |-> "gpt-4o"],
     openrouter |-> [name |-> "OpenRouter", apiKeyEnv |-> "OPENROUTER_API_KEY",
                     modelEnv |-> "OPENROUTER_MODEL",
                     defaultModel |-> "deepseek/deepseek-chat-v3.1"],
     xai        |-> [name |-> "XAI (Grok)", apiKeyEnv |-> "XAI_API_KEY",
                     modelEnv |-> "XAI_MODEL", defaultModel |-> "grok-4"],
     groq       |-> [name |-> "Groq", apiKeyEnv |-> "GROQ_API_KEY",
                     modelEnv |-> "GROQ_MODEL",
                     defaultModel |-> "llama-3.3-70b-versatile"],
     perplexity |-> [name |-> "Perplexity", apiKeyEnv |-> "PERPLEXITY_API_KEY",
                     modelEnv |-> "PERPLEXITY_MODEL",
                     defaultModel |-> "llama-3.1-sonar-large-128k-online"],
     gemini     |-> [name |-> "Google Gemini", apiKeyEnv |-> "GEMINI_API_KEY",
                     modelEnv |-> "GEMINI_MODEL", defaultModel |-> "gemini-1.5-pro"]]

\* PROVIDERS[id] is truthy.  Ids that resolve through Object.prototype
\* ("constructor", ...) are not among the inputs of this model.
Known(id) == id \in DOMAIN PROVIDERS

EnvNames ==
    {PROVIDERS[k].apiKeyEnv : k \in DOMAIN PROVIDERS}
    \cup {PROVIDERS[k].modelEnv : k \in DOMAIN PROVIDERS}
    \cup {"IP_RATE_LIMIT", "SUPABASE_URL", "SUPABASE_SERVICE_ROLE_KEY"}
    \cup {"DEFAULT_MAX_TOKENS", "DEFAULT_TEMPERATURE"}

\* ------------------------------------------------------------------ state
VARIABLES
    env,             \* process.env, fixed at process start
    supabase,        \* TRUE iff the Supabase client was created
    now,             \* Date.now()
    ipRequestCache,  \* client ip -> admitted timestamps
    store,           \* rows of table chat_messages
    dbClock,         \* creation stamp of the latest inserted row
    served,          \* number of requests received so far
    admissions,      \* history: client ip -> arrival times of its non-static requests
                     \* that the limiter passed on (never purged)
    req,             \* the request being handled, or the last one answered
    client           \* the AskAI component in the browser

vars == <<env, supabase, now, ipRequestCache, store, dbClock, served, admissions, req, client>>

IP_RATE_LIMIT == OrDefault(ParseInt(env["IP_RATE_LIMIT"]), RATE_LIMIT_DEFAULT)

DEFAULT_MAX_TOKENS == OrDefault(ParseInt(env["DEFAULT_MAX_TOKENS"]), MAX_TOKENS_FALLBACK)

DEFAULT_TEMPERATURE == OrDefault(ParseFloat(env["DEFAULT_TEMPERATURE"]), TEMPERATURE_FALLBACK)

ApiKey(k) == env[PROVIDERS[k].apiKeyEnv]

\* ------------------------------------------------------------- responses
NoRes == [status |-> 0]

StaticExt == {"js", "css", "ico", "png", "jpg", "svg", "woff", "woff2", "ttf", "eot"}

\* variant: only scripts are exempt
IsStaticPath_JsOnly(path) == path.ext = "js"

\* req.path.match(/\.(js|css|...)$/): ext is the text after the last dot
IsStaticPath(path) == path.ext \in StaticExt

\* variant: the header is not consulted
ClientIp_IgnoresHeader(xff, remote) ==
    IF Truthy(remote) THEN remote
    ELSE "unknown"

\* clientIp of the limiter; xff is the x-forwarded-for header split at ","
\* (<<>> when the header is absent)
ClientIp(xff, remote) ==
    IF xff # <<>> /\ Truthy(xff[1]) THEN xff[1]
    ELSE IF Truthy(remote) THEN remote
    ELSE "unknown"

CacheOf(cache, ip) == IF ip \in DOMAIN cache THEN cache[ip] ELSE <<>>

Put(cache, ip, list) == [k \in DOMAIN cache \cup {ip} |-> IF k = ip THEN list ELSE cache[k]]

\* variant: the timestamp is pushed before the limit is tested, so a
\* rejected request is recorded too
RateLimit_RecordsRejected(cache, path, clientIp, t) ==
    IF IP_RATE_LIMIT <= 0 THEN [limited |-> FALSE, cache |-> cache, res |-> NoRes]
    ELSE IF IsStaticPath(path) THEN [limited |-> FALSE, cache |-> cache, res |-> NoRes]
    ELSE
      LET hourAgo == t - WINDOW_MS
          kept == Filter(CacheOf(cache, clientIp), hourAgo)
          requestCount == Len(kept)
          limited == requestCount >= IP_RATE_LIMIT
      IN IF limited
         THEN LET resetTime == SeqMin(kept) + WINDOW_MS
                  waitTimeMinutes == CeilDiv(resetTime - t, MINUTE_MS)
              IN [limited |-> TRUE,
                  cache |-> Put(cache, clientIp, Append(kept, t)),
                  res |-> [status |-> 429, ok |-> FALSE,
                           message |-> <<"Rate limit exceeded. Try again in ",
                                         "${waitTimeMinutes}", " minutes.">>,
                           waitTimeMinutes |-> waitTimeMinutes,
                           resetTime |-> resetTime]]
         ELSE [limited |-> FALSE,
               cache |-> Put(cache, clientIp, Append(kept, t)),
               res |-> NoRes]

\* variant: the request is rejected only when the count exceeds the limit
RateLimit_OffByOne(cache, path, clientIp, t) ==
    IF IP_RATE_LIMIT <= 0 THEN [limited |-> FALSE, cache |-> cache, res |-> NoRes]
    ELSE IF IsStaticPath(path) THEN [limited |-> FALSE, cache |-> cache, res |-> NoRes]
    ELSE
      LET hourAgo == t - WINDOW_MS
          kept == Filter(CacheOf(cache, clientIp), hourAgo)
          requestCount == Len(kept)
          limited == requestCount > IP_RATE_LIMIT
      IN IF limited
         THEN LET resetTime == SeqMin(kept) + WINDOW_MS
                  waitTimeMinutes == CeilDiv(resetTime - t, MINUTE_MS)
              IN [limited |-> TRUE,
                  cache |-> Put(cache, clientIp, kept),
                  res |-> [status |-> 429, ok |-> FALSE,
                           message |-> <<"Rate limit exceeded. Try again in ",
                                         "${waitTimeMinutes}", " minutes.">>,
                           waitTimeMinutes |-> waitTimeMinutes,
                           resetTime |-> resetTime]]
         ELSE [limited |-> FALSE,
               cache |-> Put(cache, clientIp, Append(kept, t)),
               res |-> NoRes]

\* The rate limiting middleware at time t: the new cache, whether next() is
\* called, and the 429 response otherwise.
RateLimit(cache, path, clientIp, t) ==
    IF IP_RATE_LIMIT <= 0 THEN [limited |-> FALSE, cache |-> cache, res |-> NoRes]
    ELSE IF IsStaticPath(path) THEN [limited |-> FALSE, cache |-> cache, res |-> NoRes]
    ELSE
      LET hourAgo == t - WINDOW_MS
          kept == Filter(CacheOf(cache, clientIp), hourAgo)
          requestCount == Len(kept)
          limited == requestCount >= IP_RATE_LIMIT
      IN IF limited
         THEN LET resetTime == SeqMin(kept) + WINDOW_MS
                  waitTimeMinutes == CeilDiv(resetTime - t, MINUTE_MS)
              IN [limited |-> TRUE,
                  cache |-> Put(cache, clientIp, kept),
                  res |-> [status |-> 429, ok |-> FALSE,
                           message |-> <<"Rate limit exceeded. Try again in ",
                                         "${waitTimeMinutes}", " minutes.">>,
                           waitTimeMinutes |-> waitTimeMinutes,
                           resetTime |-> resetTime]]
         ELSE [limited |-> FALSE,
               cache |-> Put(cache, clientIp, Append(kept, t)),
               res |-> NoRes]

\* GET /api/check-env (the fields the limiter and store configuration show)
CheckEnvResponse ==
    [status |-> 200, ok |-> TRUE,
     env |-> [k \in DOMAIN PROVIDERS |-> [apiKeyConfigured |-> Truthy(ApiKey(k))]],
     supabase |-> supabase,
     rateLimiting |-> [enabled |-> IP_RATE_LIMIT > 0, limit |-> IP_RATE_LIMIT]]

\* ---------------------------------------------------- conversation store
\* A row of chat_messages.  created_at is assigned by the database, strictly
\* increasing with every insert; rid (not a column) names the request that
\* wrote the row, 0 for rows written before this process started.
Row(sessionId, role, content, t, rid) ==
    [session_id |-> sessionId, role |-> role, content |-> content,
     timestamp |-> t, created_at |-> dbClock + 1, rid |-> rid]

\* saveMessage: the table after the call; fault = the insert returns an error
\* or throws (both are only logged)
saveMessage(messageData, fault) ==
    IF ~supabase THEN store
    ELSE IF fault THEN store
    ELSE store \cup {messageData}

RECURSIVE OrderLimit_NoLimit(_, _)
\* variant: the query without .limit(n)
OrderLimit_NoLimit(rows, n) ==
    IF rows = {} THEN <<>>
    ELSE LET first == CHOOSE r \in rows : \A q \in rows : r.created_at <= q.created_at
         IN <<first>> \o OrderLimit_NoLimit(rows \ {first}, n)

RECURSIVE OrderLimit(_, _)
\* .order('created_at', { ascending: true }).limit(n)
OrderLimit(rows, n) ==
    IF rows = {} \/ n = 0 THEN <<>>
    ELSE LET first == CHOOSE r \in rows : \A q \in rows : r.created_at <= q.created_at
         IN <<first>> \o OrderLimit(rows \ {first}, n - 1)

\* variant: the rows are returned although the select reported an error
getChatHistory_IgnoresError(sessionId, fault) ==
    IF ~supabase THEN <<>>
    ELSE OrderLimit({r \in store : r.session_id = sessionId}, HISTORY_LIMIT)

\* getChatHistory: fault = the select returns an error or throws
getChatHistory(sessionId, fault) ==
    IF ~supabase THEN <<>>
    ELSE IF fault THEN <<>>
    ELSE OrderLimit({r \in store : r.session_id = sessionId}, HISTORY_LIMIT)

\* ------------------------------------------------------------ /api/ask-ai
FULL_STACK_SYSTEM_PROMPT == "FULL_STACK_SYSTEM_PROMPT"

\* utils/templates.js: the catalog of named system-prompt fragments
TEMPLATES == [portfolio |-> [systemPrompt |-> "TEMPLATES.portfolio.systemPrompt"]]

\* variant: the stack hint is left out
SystemContent_NoStack(body) ==
    LET templateId == Field(body, "templateId")
    IN IF Truthy(templateId) /\ templateId \in DOMAIN TEMPLATES
          /\ Truthy(TEMPLATES[templateId].systemPrompt)
       THEN <<TEMPLATES[templateId].systemPrompt, "\n\n", FULL_STACK_SYSTEM_PROMPT>>
       ELSE <<FULL_STACK_SYSTEM_PROMPT>>

\* the system message content, as the fragments of the template literals
SystemContent(body) ==
    LET templateId == Field(body, "templateId")
        stack == Field(body, "stack")
        systemPrompt ==
            IF Truthy(templateId) /\ templateId \in DOMAIN TEMPLATES
               /\ Truthy(TEMPLATES[templateId].systemPrompt)
            THEN <<TEMPLATES[templateId].systemPrompt, "\n\n", FULL_STACK_SYSTEM_PROMPT>>
            ELSE <<FULL_STACK_SYSTEM_PROMPT>>
    IN IF Truthy(stack) THEN <<"Project Stack: ", stack, "\n\n">> \o systemPrompt
       ELSE systemPrompt

\* messages = [system] ++ history ++ [user prompt]
ComposeMessages(body, history) ==
    <<[role |-> "system", content |-> SystemContent(body)]>>
    \o [j \in 1..Len(history) |-> [role |-> history[j].role, content |-> history[j].content]]
    \o <<[role |-> "user", content |-> body.prompt]>>

\* variant: the prompt is tested without trim()
PromptMissing_NoTrim(body) == ~Has(body, "prompt") \/ body.prompt = <<>>

\* !prompt?.trim()
PromptMissing(body) == ~Has(body, "prompt") \/ Trim(body.prompt) = <<>>

RECURSIVE ConfiguredExcept(_, _)
\* Object.keys(PROVIDERS).forEach: keys other than the requested one that
\* have an API key, from position j on, in declaration order
ConfiguredExcept(requestedProvider, j) ==
    IF j > Len(ProviderKeys) THEN <<>>
    ELSE LET key == ProviderKeys[j]
         IN (IF key # requestedProvider /\ Truthy(ApiKey(key)) THEN <<key>> ELSE <<>>)
            \o ConfiguredExcept(requestedProvider, j + 1)

\* variant: the requested provider is appended after the others
ProvidersToTry_RequestedLast(body) ==
    LET requestedProvider == Field(body, "provider")
    IN ConfiguredExcept(requestedProvider, 1)
       \o (IF Truthy(requestedProvider) /\ Known(requestedProvider)
           THEN <<requestedProvider>> ELSE <<>>)

\* providersToTry: the requested provider when it is a registry key, then
\* the other configured providers
ProvidersToTry(body) ==
    LET requestedProvider == Field(body, "provider")
    IN (IF Truthy(requestedProvider) /\ Known(requestedProvider)
        THEN <<requestedProvider>> ELSE <<>>)
       \o ConfiguredExcept(requestedProvider, 1)

\* variant: the loop without "if (!apiKey) continue"
NextAttempt_NoKeyGuard(list, j) == IF j > Len(list) THEN 0 ELSE j

RECURSIVE NextAttempt(_, _)
\* the attempt loop from position j: the first candidate that has an API key
\* (if (!apiKey) continue), or 0 when the loop runs off the list
NextAttempt(list, j) ==
    IF j > Len(list) THEN 0
    ELSE IF ~Truthy(ApiKey(list[j])) THEN NextAttempt(list, j + 1)
    ELSE j

\* variant: the provider's environment model is not consulted
ModelToUse_NoEnv(body, providerKey) ==
    IF Truthy(Field(body, "model")) THEN body.model
    ELSE PROVIDERS[providerKey].defaultModel

\* requestedModel || process.env[modelEnv] || defaultModel
ModelToUse(body, providerKey) ==
    IF Truthy(Field(body, "model")) THEN body.model
    ELSE IF Truthy(env[PROVIDERS[providerKey].modelEnv]) THEN env[PROVIDERS[providerKey].modelEnv]
    ELSE PROVIDERS[providerKey].defaultModel

\* The generation options of an adapter call.  A body's maxTokens and
\* temperature are numbers (temperature in tenths) or absent.
\*   maxTokens || DEFAULT_MAX_TOKENS
\*   temperature !== undefined ? temperature : DEFAULT_TEMPERATURE
GenOptions(body) ==
    [maxTokens |-> IF Has(body, "maxTokens") /\ body.maxTokens # 0
                   THEN body.maxTokens ELSE DEFAULT_MAX_TOKENS,
     temperature |-> IF Has(body, "temperature") THEN body.temperature
                     ELSE DEFAULT_TEMPERATURE]

NoError == <<"null">>

Names(list) == [j \in 1..Len(list) |-> PROVIDERS[list[j]].name]

AllFailedResponse(r, lastError) ==
    [status |-> 500, ok |-> FALSE,
     message |-> <<"All AI providers failed. Last error: ">> \o lastError,
     providersAttempted |-> Names(r.providersToTry)]

\* variant: when the list is exhausted after a single attempt, the loop
\* makes a second pass over it
Resume_SecondPass(r, j, lastError) ==
    LET k1 == NextAttempt(r.providersToTry, j)
        k == IF k1 = 0 /\ Len(r.invoked) = 1 THEN NextAttempt(r.providersToTry, 1) ELSE k1
    IN IF k = 0
       THEN [r EXCEPT !.pc = "done", !.i = Len(r.providersToTry) + 1,
                      !.lastError = lastError,
                      !.res = AllFailedResponse(r, lastError)]
       ELSE [r EXCEPT !.pc = "attempt", !.i = k, !.lastError = lastError,
                      !.modelToUse = ModelToUse(r.body, r.providersToTry[k]),
                      !.invoked = Append(r.invoked, r.providersToTry[k]),
                      !.calls = Append(r.calls,
                                       [model |-> ModelToUse(r.body, r.providersToTry[k]),
                                        messages |-> r.messages,
                                        options |-> GenOptions(r.body)])]

\* The attempt loop resumed at position j with the given lastError: either
\* the adapter of the next candidate is invoked and the handler waits for
\* it, or the list is exhausted and the failure response is sent.
Resume(r, j, lastError) ==
    LET k == NextAttempt(r.providersToTry, j)
    IN IF k = 0
       THEN [r EXCEPT !.pc = "done", !.i = Len(r.providersToTry) + 1,
                      !.lastError = lastError,
                      !.res = AllFailedResponse(r, lastError)]
       ELSE [r EXCEPT !.pc = "attempt", !.i = k, !.lastError = lastError,
                      !.modelToUse = ModelToUse(r.body, r.providersToTry[k]),
                      !.invoked = Append(r.invoked, r.providersToTry[k]),
                      !.calls = Append(r.calls,
                                       [model |-> ModelToUse(r.body, r.providersToTry[k]),
                                        messages |-> r.messages,
                                        options |-> GenOptions(r.body)])]

\* ---------------------------------------------------------------- actions
IdleReq ==
    [pc |-> "idle", rid |-> 0, at |-> 0, clientIp |-> "", path |-> [method |-> "", base |-> "", ext |-> "", exists |-> FALSE],
     body |-> <<>>, providersToTry |-> <<>>, i |-> 0, messages |-> <<>>,
     lastError |-> NoError, modelToUse |-> "", aiResponse |-> <<>>, tokensUsed |-> 0,
     res |-> NoRes,
     admitted |-> FALSE,     \* history: the limiter called next()
     historyRead |-> FALSE,  \* history: getChatHistory was called
     faulted |-> FALSE,      \* history: a store call of this request failed
     invoked |-> <<>>,       \* history: adapters invoked, in order
     calls |-> <<>>,         \* history: model and messages passed to each adapter
     replies |-> <<>>,       \* history: what each adapter call came back with
     history |-> <<>>,       \* history: rows that getChatHistory returned
     faults |-> {},          \* history: the store calls of this request that failed
     cancelled |-> FALSE,    \* history: the caller aborted the request
     cancelInvoked |-> 0,    \* history: adapters invoked when it aborted
     cancelTurns |-> 0,      \* history: turns of this request stored when it aborted
     xff |-> <<>>,           \* history: the x-forwarded-for header, split at ","
     remote |-> ""]          \* history: the connection's remote address

IsAskAi(path) == path.method = "POST" /\ path.base = "/api/ask-ai" /\ path.ext = ""

IsCheckEnv(path) == path.method = "GET" /\ path.base = "/api/check-env" /\ path.ext = ""

IsHealth(path) == path.method = "GET" /\ path.base = "/api/health" /\ path.ext = ""

IsTemplates(path) == path.method = "GET" /\ path.base = "/api/templates" /\ path.ext = ""

IsTestConnection(path) ==
    path.method = "POST" /\ path.base = "/api/test-connection" /\ path.ext = ""

UsesStore(r) == Truthy(Field(r.body, "sessionId")) /\ supabase

\* POST /api/ask-ai up to its first await
AskAiStart(r) ==
    IF PromptMissing(r.body)
    THEN [r EXCEPT !.pc = "done",
                   !.res = [status |-> 400, ok |-> FALSE, message |-> <<"Missing or empty prompt">>]]
    ELSE LET list == ProvidersToTry(r.body)
             r1 == [r EXCEPT !.providersToTry = list]
         IN IF Len(list) = 0
            THEN [r1 EXCEPT !.pc = "done",
                            !.res = [status |-> 500, ok |-> FALSE,
                                     message |-> <<"No AI providers configured with API keys">>]]
            ELSE IF UsesStore(r1)
            THEN [r1 EXCEPT !.pc = "history"]
            ELSE Resume([r1 EXCEPT !.messages = ComposeMessages(r.body, <<>>)], 1, NoError)

\* model || process.env[modelEnv] || defaultModel
TestModel(body, provider) ==
    IF Truthy(Field(body, "model")) THEN body.model
    ELSE IF Truthy(env[PROVIDERS[provider].modelEnv]) THEN env[PROVIDERS[provider].modelEnv]
    ELSE PROVIDERS[provider].defaultModel

\* the one-message conversation of a connection test
TestMessages(provider) ==
    IF provider = "gemini"
    THEN <<[role |-> "user", content |-> <<"Ping">>]>>
    ELSE <<[role |-> "user", content |-> <<"Hello, respond with 'Connection successful'">>]>>

\* the same handler without the credential check
TestConnectionStart_NoKeyCheck(r) ==
    LET provider == Field(r.body, "provider")
    IN IF ~Truthy(provider) \/ ~Known(provider)
       THEN [r EXCEPT !.pc = "done",
                      !.res = [status |-> 400, ok |-> FALSE,
                               message |-> <<"Invalid or missing provider">>]]
       ELSE [r EXCEPT !.pc = "test", !.modelToUse = TestModel(r.body, provider),
                      !.invoked = <<provider>>,
                      !.calls = <<[model |-> TestModel(r.body, provider),
                                   messages |-> TestMessages(provider)]>>]

\* POST /api/test-connection up to its first await
TestConnectionStart(r) ==
    LET provider == Field(r.body, "provider")
    IN IF ~Truthy(provider) \/ ~Known(provider)
       THEN [r EXCEPT !.pc = "done",
                      !.res = [status |-> 400, ok |-> FALSE,
                               message |-> <<"Invalid or missing provider">>]]
       ELSE IF ~Truthy(ApiKey(provider))
       THEN [r EXCEPT !.pc = "done",
                      !.res = [status |-> 400, ok |-> FALSE,
                               message |-> <<PROVIDERS[provider].name, " API key not configured">>]]
       ELSE [r EXCEPT !.pc = "test", !.modelToUse = TestModel(r.body, provider),
                      !.invoked = <<provider>>,
                      !.calls = <<[model |-> TestModel(r.body, provider),
                                   messages |-> TestMessages(provider)]>>]

\* GET /api/health (state is the body's "status" field)
HealthResponse == [status |-> 200, ok |-> TRUE, state |-> "healthy"]

\* GET /api/templates: the ids of the catalog
TemplatesResponse == [status |-> 200, ok |-> TRUE, templates |-> DOMAIN TEMPLATES]

\* variant: the prompt of /api/ask-ai is validated before the limiter runs
Arrive_ValidatesFirst(maxReq, xff, remote, path, body) ==
    /\ req.pc \in {"idle", "done"}
    /\ served < maxReq
    /\ LET clientIp == ClientIp(xff, remote)
           r0 == [IdleReq EXCEPT !.rid = served + 1, !.at = now, !.clientIp = clientIp,
                                 !.path = path, !.body = body,
                                 !.xff = xff, !.remote = remote]
           rl == RateLimit(ipRequestCache, path, clientIp, now)
           counted == ~rl.limited /\ ~IsStaticPath(path)
       IN IF path.method = "GET" /\ path.exists
          THEN /\ req' = [r0 EXCEPT !.pc = "done", !.res = [status |-> 200, ok |-> TRUE, file |-> path.base]]
               /\ UNCHANGED <<ipRequestCache, admissions>>
          ELSE IF IsAskAi(path) /\ PromptMissing(body)
          THEN /\ req' = AskAiStart(r0)
               /\ UNCHANGED <<ipRequestCache, admissions>>
          ELSE /\ ipRequestCache' = rl.cache
               /\ admissions' = IF counted
                                THEN Put(admissions, clientIp, Append(CacheOf(admissions, clientIp), now))
                                ELSE admissions
               /\ req' = IF rl.limited THEN [r0 EXCEPT !.pc = "done", !.res = rl.res]
                         ELSE LET r1 == [r0 EXCEPT !.admitted = TRUE]
                              IN IF IsAskAi(path) THEN AskAiStart(r1)
                                 ELSE IF IsTestConnection(path) THEN TestConnectionStart(r1)
                                 ELSE IF IsCheckEnv(path)
                                 THEN [r1 EXCEPT !.pc = "done", !.res = CheckEnvResponse]
                                 ELSE IF IsHealth(path)
                                 THEN [r1 EXCEPT !.pc = "done", !.res = HealthResponse]
                                 ELSE IF IsTemplates(path)
                                 THEN [r1 EXCEPT !.pc = "done", !.res = TemplatesResponse]
                                 ELSE [r1 EXCEPT !.pc = "done",
                                                 !.res = [status |-> 200, ok |-> TRUE, file |-> "index.html"]]
    /\ served' = served + 1
    /\ UNCHANGED <<env, supabase, now, store, dbClock, client>>

\* A request arrives: express.static, the rate limiting middleware, then the
\* route handler up to its first await.
Arrive(maxReq, xff, remote, path, body) ==
    /\ req.pc \in {"idle", "done"}
    /\ served < maxReq
    /\ LET clientIp == ClientIp(xff, remote)
           r0 == [IdleReq EXCEPT !.rid = served + 1, !.at = now, !.clientIp = clientIp,
                                 !.path = path, !.body = body,
                                 !.xff = xff, !.remote = remote]
           rl == RateLimit(ipRequestCache, path, clientIp, now)
           counted == ~rl.limited /\ ~IsStaticPath(path)
       IN IF path.method = "GET" /\ path.exists
          THEN /\ req' = [r0 EXCEPT !.pc = "done", !.res = [status |-> 200, ok |-> TRUE, file |-> path.base]]
               /\ UNCHANGED <<ipRequestCache, admissions>>
          ELSE /\ ipRequestCache' = rl.cache
               /\ admissions' = IF counted
                                THEN Put(admissions, clientIp, Append(CacheOf(admissions, clientIp), now))
                                ELSE admissions
               /\ req' = IF rl.limited THEN [r0 EXCEPT !.pc = "done", !.res = rl.res]
                         ELSE LET r1 == [r0 EXCEPT !.admitted = TRUE]
                              IN IF IsAskAi(path) THEN AskAiStart(r1)
                                 ELSE IF IsTestConnection(path) THEN TestConnectionStart(r1)
                                 ELSE IF IsCheckEnv(path)
                                 THEN [r1 EXCEPT !.pc = "done", !.res = CheckEnvResponse]
                                 ELSE IF IsHealth(path)
                                 THEN [r1 EXCEPT !.pc = "done", !.res = HealthResponse]
                                 ELSE IF IsTemplates(path)
                                 THEN [r1 EXCEPT !.pc = "done", !.res = TemplatesResponse]
                                 ELSE [r1 EXCEPT !.pc = "done",
                                                 !.res = [status |-> 200, ok |-> TRUE, file |-> "index.html"]]
    /\ served' = served + 1
    /\ UNCHANGED <<env, supabase, now, store, dbClock, client>>

\* await getChatHistory(sessionId) returns; the messages are composed
LoadHistory(fault) ==
    /\ req.pc = "history"
    /\ req' = [req EXCEPT !.pc = "saveUser", !.historyRead = TRUE,
                          !.faulted = fault,
                          !.faults = IF fault THEN {"read"} ELSE {},
                          !.history = getChatHistory(req.body.sessionId, fault),
                          !.messages = ComposeMessages(req.body, getChatHistory(req.body.sessionId, fault))]
    /\ UNCHANGED <<env, supabase, now, ipRequestCache, store, dbClock, served, admissions, client>>

\* await saveMessage({role: 'user'}) returns; the attempt loop starts
SaveUser(fault) ==
    /\ req.pc = "saveUser"
    /\ store' = saveMessage(Row(req.body.sessionId, "user", req.body.prompt, now, req.rid), fault)
    /\ dbClock' = IF store' # store THEN dbClock + 1 ELSE dbClock
    /\ req' = Resume([req EXCEPT !.faulted = @ \/ fault,
                                 !.faults = IF fault THEN @ \cup {"user"} ELSE @], 1, NoError)
    /\ UNCHANGED <<env, supabase, now, ipRequestCache, served, admissions, client>>

OkText == <<"o", "k">>

\* what a provider call can come back with
Replies ==
    {[kind |-> "ok", text |-> OkText, tokens |-> 42],
     [kind |-> "ok", text |-> <<>>, tokens |-> 0],
     [kind |-> "ok", text |-> <<" ">>, tokens |-> 1],
     [kind |-> "http_error", status |-> 401, reason |-> "Unauthorized"],
     [kind |-> "throw", reason |-> "network timeout"]}

\* variant: the response names the first candidate instead of the one that answered
SuccessResponse_FirstCandidate(r) ==
    [status |-> 200, ok |-> TRUE, response |-> r.aiResponse,
     modelUsed |-> ModelToUse(r.body, r.providersToTry[1]),
     providerUsed |-> PROVIDERS[r.providersToTry[1]].name, tokensUsed |-> r.tokensUsed]

SuccessResponse(r) ==
    [status |-> 200, ok |-> TRUE, response |-> r.aiResponse, modelUsed |-> r.modelToUse,
     providerUsed |-> PROVIDERS[r.providersToTry[r.i]].name, tokensUsed |-> r.tokensUsed]

\* variant: a provider error ends the loop instead of continuing it
ProviderReplies_FailFast(reply) ==
    /\ req.pc = "attempt"
    /\ LET providerKey == req.providersToTry[req.i]
           name == PROVIDERS[providerKey].name
       IN /\ providerKey = "gemini" => reply.kind # "http_error"
          /\ req' =
               LET r0 == [req EXCEPT !.replies = Append(@, reply)]
               IN
               IF reply.kind # "ok"
               THEN Resume(r0, Len(req.providersToTry) + 1, <<name, ": ", reply.reason>>)
               ELSE IF Trim(reply.text) = <<>>
               THEN Resume(r0, req.i + 1, <<name, ": ", "Empty response received">>)
               ELSE LET r1 == [r0 EXCEPT !.aiResponse = reply.text, !.tokensUsed = reply.tokens]
                    IN IF UsesStore(req) THEN [r1 EXCEPT !.pc = "saveAssistant"]
                       ELSE [r1 EXCEPT !.pc = "done", !.res = SuccessResponse(r1)]
    /\ UNCHANGED <<env, supabase, now, ipRequestCache, store, dbClock, served, admissions, client>>

\* the pending adapter call of the current candidate comes back
ProviderReplies(reply) ==
    /\ req.pc = "attempt"
    /\ LET providerKey == req.providersToTry[req.i]
           name == PROVIDERS[providerKey].name
       IN \* the SDK adapter reports a provider error by throwing
          /\ providerKey = "gemini" => reply.kind # "http_error"
          /\ req' =
               LET r0 == [req EXCEPT !.replies = Append(@, reply)]
               IN
               IF reply.kind # "ok"
               THEN Resume(r0, req.i + 1, <<name, ": ", reply.reason>>)
               ELSE IF Trim(reply.text) = <<>>
               THEN Resume(r0, req.i + 1, <<name, ": ", "Empty response received">>)
               ELSE LET r1 == [r0 EXCEPT !.aiResponse = reply.text, !.tokensUsed = reply.tokens]
                    IN IF UsesStore(req) THEN [r1 EXCEPT !.pc = "saveAssistant"]
                       ELSE [r1 EXCEPT !.pc = "done", !.res = SuccessResponse(r1)]
    /\ UNCHANGED <<env, supabase, now, ipRequestCache, store, dbClock, served, admissions, client>>

\* await saveMessage({role: 'assistant'}) returns; the success response is sent
SaveAssistant(fault) ==
    /\ req.pc = "saveAssistant"
    /\ store' = saveMessage(Row(req.body.sessionId, "assistant", req.aiResponse, now, req.rid), fault)
    /\ dbClock' = IF store' # store THEN dbClock + 1 ELSE dbClock
    /\ req' = [req EXCEPT !.pc = "done", !.res = SuccessResponse(req), !.faulted = @ \/ fault,
                          !.faults = IF fault THEN @ \cup {"assistant"} ELSE @]
    /\ UNCHANGED <<env, supabase, now, ipRequestCache, served, admissions, client>>

\* the adapter call of a connection test returns or throws
TestReplies(reply) ==
    /\ req.pc = "test"
    /\ LET provider == req.body.provider
           name == PROVIDERS[provider].name
           r0 == [req EXCEPT !.pc = "done", !.replies = Append(@, reply)]
       IN /\ provider = "gemini" => reply.kind # "http_error"
          /\ req' =
               IF reply.kind = "throw"
               THEN [r0 EXCEPT !.res = [status |-> 500, ok |-> FALSE,
                                        message |-> IF reply.reason # ""
                                                    THEN <<reply.reason>>
                                                    ELSE <<"Connection test failed">>,
                                        provider |-> name]]
               ELSE IF reply.kind = "http_error"
               THEN [r0 EXCEPT !.res = [status |-> reply.status, ok |-> FALSE,
                                        message |-> <<reply.reason>>,
                                        provider |-> name]]
               ELSE [r0 EXCEPT !.res = [status |-> 200, ok |-> TRUE,
                                        message |-> <<"Connection successful">>,
                                        provider |-> name,
                                        model |-> req.modelToUse,
                                        response |-> IF provider # "gemini" /\ reply.text = <<>>
                                                     THEN <<"No response">>
                                                     ELSE reply.text]]
    /\ UNCHANGED <<env, supabase, now, ipRequestCache, store, dbClock, served, admissions, client>>

\* The caller aborts its fetch while a provider call is pending.  The route
\* handler registers nothing for an aborted request, so the attempt loop is
\* not told: only the history fields change.
Cancel ==
    /\ IsAskAi(req.path)
    /\ req.pc = "attempt"
    /\ ~req.cancelled
    /\ req' = [req EXCEPT !.cancelled = TRUE,
                          !.cancelInvoked = Len(req.invoked),
                          !.cancelTurns = Cardinality({row \in store : row.rid = req.rid})]
    /\ UNCHANGED <<env, supabase, now, ipRequestCache, store, dbClock, served, admissions, client>>

\* A request that is answered without an await (a missing asset, an
\* environment check) arrives while the handler of req is waiting: it runs
\* through the rate limiting middleware between two steps of that handler.
ArriveDuring(maxReq, xff, remote, path) ==
    /\ req.pc \notin {"idle", "done"}
    /\ served < maxReq
    /\ ~(path.method = "GET" /\ path.exists)
    /\ ~IsAskAi(path) /\ ~IsTestConnection(path)
    /\ LET clientIp == ClientIp(xff, remote)
           rl == RateLimit(ipRequestCache, path, clientIp, now)
           counted == ~rl.limited /\ ~IsStaticPath(path)
       IN /\ ipRequestCache' = rl.cache
          /\ admissions' = IF counted
                           THEN Put(admissions, clientIp, Append(CacheOf(admissions, clientIp), now))
                           ELSE admissions
    /\ served' = served + 1
    /\ UNCHANGED <<env, supabase, now, store, dbClock, req, client>>

\* variant: the callback filters the lists but deletes no key
Sweep_KeepsEmptyKeys ==
    /\ LET cutoff == now - WINDOW_MS
       IN ipRequestCache' = [ip \in DOMAIN ipRequestCache |-> Filter(ipRequestCache[ip], cutoff)]
    /\ UNCHANGED <<env, supabase, now, store, dbClock, served, admissions, req, client>>

\* the setInterval callback that cleans the rate limit cache
Sweep ==
    /\ LET cutoff == now - WINDOW_MS
           kept == [ip \in DOMAIN ipRequestCache |-> Filter(ipRequestCache[ip], cutoff)]
       IN ipRequestCache' = [ip \in {k \in DOMAIN kept : Len(kept[k]) # 0} |-> kept[ip]]
    /\ UNCHANGED <<env, supabase, now, store, dbClock, served, admissions, req, client>>

TickSteps == {1799999, 1800000}

\* time passes
Tick(d) ==
    /\ now + d <= MaxTime
    /\ now' = now + d
    /\ UNCHANGED <<env, supabase, ipRequestCache, store, dbClock, served, admissions, req, client>>

\* ------------------------------------------------------- the SDK adapter
\* x ?? d, for an option that is absent (undefined) or present
Nullish(options, k, d) == IF Has(options, k) THEN options[k] ELSE d

IsSystem(m) == m.role = "system"

NotSystem(m) == m.role # "system"

\* variant: every role but "user" is mapped to "model"
GeminiRequest_UserOrModel(modelName, messages, options) ==
    LET system == SelectSeq(messages, IsSystem)
        systemInstruction == IF system = <<>> THEN <<>> ELSE system[1].content
        kept == SelectSeq(messages, NotSystem)
        chatMessages == [j \in 1..Len(kept) |->
                            [role |-> IF kept[j].role = "user" THEN "user" ELSE "model",
                             parts |-> <<[text |-> kept[j].content]>>]]
    IN IF chatMessages = <<>> THEN [threw |-> TRUE]
       ELSE [threw |-> FALSE,
             model |-> IF Truthy(modelName) THEN modelName ELSE GEMINI_DEFAULT_MODEL,
             generationConfig |->
                 [temperature |-> Nullish(options, "temperature", GEMINI_TEMPERATURE),
                  maxOutputTokens |-> Nullish(options, "maxTokens", GEMINI_MAX_OUTPUT_TOKENS)],
             history |-> SubSeq(chatMessages, 1, Len(chatMessages) - 1),
             systemInstruction |-> [passed |-> systemInstruction # <<>>,
                                    text |-> systemInstruction],
             lastMessage |-> chatMessages[Len(chatMessages)].parts[1].text]

\* GeminiProvider.generateResponse up to sendMessage: what is handed to the
\* SDK (getGenerativeModel, startChat, sendMessage), or the TypeError thrown
\* at chatMessages[chatMessages.length - 1].parts when no message is left
GeminiRequest(modelName, messages, options) ==
    LET system == SelectSeq(messages, IsSystem)
        \* messages.find(m => m.role === 'system')?.content
        systemInstruction == IF system = <<>> THEN <<>> ELSE system[1].content
        kept == SelectSeq(messages, NotSystem)
        chatMessages == [j \in 1..Len(kept) |->
                            [role |-> IF kept[j].role = "assistant" THEN "model" ELSE "user",
                             parts |-> <<[text |-> kept[j].content]>>]]
    IN IF chatMessages = <<>> THEN [threw |-> TRUE]
       ELSE [threw |-> FALSE,
             model |-> IF Truthy(modelName) THEN modelName ELSE GEMINI_DEFAULT_MODEL,
             generationConfig |->
                 [temperature |-> Nullish(options, "temperature", GEMINI_TEMPERATURE),
                  maxOutputTokens |-> Nullish(options, "maxTokens", GEMINI_MAX_OUTPUT_TOKENS)],
             history |-> SubSeq(chatMessages, 1, Len(chatMessages) - 1),
             \* ...(systemInstruction && {systemInstruction: ...})
             systemInstruction |-> [passed |-> systemInstruction # <<>>,
                                    text |-> systemInstruction],
             lastMessage |-> chatMessages[Len(chatMessages)].parts[1].text]

\* generateResponse is called with the conversation held in req
GeminiGenerate ==
    /\ req.pc = "sdk"
    /\ req' = [req EXCEPT !.pc = "sdkCalled",
                          !.invoked = <<"gemini">>,
                          !.calls = <<[model |-> req.modelToUse, messages |-> req.messages,
                                       sdk |-> GeminiRequest(req.modelToUse, req.messages,
                                                             req.body)]>>]
    /\ UNCHANGED <<env, supabase, now, ipRequestCache, store, dbClock, served, admissions, client>>

\* ------------------------------------------------- the AskAI component
\* abortControllerRef.current === null
NoController == 0

\* the component once its mount effect has set sessionId; rendered holds the
\* values the handlers of the committed render have closed over
IdleClient ==
    [isAiWorking |-> FALSE,
     prompt |-> <<>>,
     chatHistory |-> <<>>,
     sessionId |-> "s1",
     rendered |-> [isAiWorking |-> FALSE, prompt |-> <<>>],
     abortControllerRef |-> NoController,
     aborted |-> {},          \* controllers whose abort() was called
     calls |-> <<>>,          \* the callAi invocations that passed the guard
     lastInvocation |-> "none"]

\* if (isAiWorking || !prompt.trim() || !sessionId) return;
CallAiReturns(c) ==
    c.rendered.isAiWorking \/ Trim(c.rendered.prompt) = <<>> \/ c.sessionId = ""

InFlight(c) == {k \in DOMAIN c.calls : c.calls[k].pc = "fetch"}

\* callAi from its guard to the fetch: the k-th call makes controller k and
\* the message ids 2k - 1 (user) and 2k (assistant) stand for uuidv4()
CallAiStart(c) ==
    LET k == Len(c.calls) + 1
        userMessage == [id |-> 2 * k - 1, session_id |-> c.sessionId, role |-> "user",
                        content |-> Trim(c.rendered.prompt)]
        overlapped == [j \in DOMAIN c.calls |->
                          IF c.calls[j].pc = "fetch" THEN [c.calls[j] EXCEPT !.alone = FALSE]
                          ELSE c.calls[j]]
    IN [c EXCEPT !.isAiWorking = TRUE,
                 !.abortControllerRef = k,
                 !.chatHistory = Append(@, userMessage),
                 !.prompt = <<>>,
                 !.lastInvocation = "started",
                 !.calls = Append(overlapped,
                                  [pc |-> "fetch", userMessage |-> userMessage, signal |-> k,
                                   before |-> c.chatHistory, alone |-> InFlight(c) = {},
                                   outcome |-> "pending", toast |-> [level |-> "none"]])]

\* what the toast of a finished call says
ToastOf(outcome, reply) ==
    CASE outcome = "ok" -> [level |-> "success", text |-> <<"Response generated using ", reply.providerUsed>>]
      [] outcome = "abort" -> [level |-> "info", text |-> <<"Generation stopped">>]
      [] outcome = "http_error" -> [level |-> "error", text |-> <<"HTTP error! status: ", reply.status>>]
      [] outcome = "invalid" -> [level |-> "error", text |-> <<"Invalid response from server">>]
      [] OTHER -> [level |-> "error", text |-> <<"Failed to fetch">>]

\* variant: the optimistic message stays when the user stopped the generation
Settle_KeepsOnAbort(c, k, outcome, reply) ==
    LET call == c.calls[k]
        aiMessage == [id |-> 2 * k, session_id |-> c.sessionId, role |-> "assistant",
                      content |-> reply.response]
        Others(msg) == msg.id # call.userMessage.id
    IN [c EXCEPT !.chatHistory = IF outcome = "ok" THEN Append(@, aiMessage)
                                 ELSE IF outcome = "abort" THEN @
                                 ELSE SelectSeq(@, Others),
                 !.isAiWorking = FALSE,
                 !.abortControllerRef = NoController,
                 !.calls[k] = [call EXCEPT !.pc = "done", !.outcome = outcome,
                                           !.toast = ToastOf(outcome, reply)]]

\* callAi from the settled fetch to the end of its finally block
Settle(c, k, outcome, reply) ==
    LET call == c.calls[k]
        aiMessage == [id |-> 2 * k, session_id |-> c.sessionId, role |-> "assistant",
                      content |-> reply.response]
        Others(msg) == msg.id # call.userMessage.id
    IN [c EXCEPT !.chatHistory = IF outcome = "ok" THEN Append(@, aiMessage)
                                 ELSE SelectSeq(@, Others),
                 !.isAiWorking = FALSE,
                 !.abortControllerRef = NoController,
                 !.calls[k] = [call EXCEPT !.pc = "done", !.outcome = outcome,
                                           !.toast = ToastOf(outcome, reply)]]

ServerVars == <<env, supabase, now, ipRequestCache, store, dbClock, served, admissions, req>>

\* the send button is clicked or Enter is pressed in the textarea: the
\* handler of the committed render runs callAi up to its first await
callAi(trigger) ==
    /\ Len(client.calls) < MaxCalls
    /\ ~client.rendered.isAiWorking
    /\ trigger = "click" => Trim(client.rendered.prompt) # <<>> /\ client.sessionId # ""
    /\ client' = IF CallAiReturns(client) THEN [client EXCEPT !.lastInvocation = "returned"]
                 ELSE CallAiStart(client)
    /\ UNCHANGED ServerVars

\* onChange of the textarea
setPrompt(text) ==
    /\ ~client.rendered.isAiWorking
    /\ client.prompt # text
    /\ client' = [client EXCEPT !.prompt = text]
    /\ UNCHANGED ServerVars

\* React commits a render with the current state
Render ==
    /\ client.rendered # [isAiWorking |-> client.isAiWorking, prompt |-> client.prompt]
    /\ client' = [client EXCEPT !.rendered = [isAiWorking |-> client.isAiWorking,
                                              prompt |-> client.prompt]]
    /\ UNCHANGED ServerVars

\* the stop button, shown while the render has isAiWorking
stopGeneration ==
    /\ client.rendered.isAiWorking
    /\ client.abortControllerRef # NoController
    /\ client.abortControllerRef \notin client.aborted
    /\ client' = [client EXCEPT !.aborted = @ \cup {client.abortControllerRef}]
    /\ UNCHANGED ServerVars

\* the fetch of call k resolves or rejects and callAi runs to its end; a
\* fetch whose signal was aborted rejects with an AbortError
FetchSettles(k, outcome, reply) ==
    /\ k \in InFlight(client)
    /\ (client.calls[k].signal \in client.aborted) <=> (outcome = "abort")
    /\ client' = Settle(client, k, outcome, reply)
    /\ UNCHANGED ServerVars

\* ------------------------------------------------------------ environment
\* process.env with API keys for the providers in keyed, model overrides for
\* those in modelled, the given IP_RATE_LIMIT and the Supabase pair set or not
MkEnv(keyed, modelled, rateLimit, sb) ==
    [n \in EnvNames |->
        IF \E k \in keyed : n = PROVIDERS[k].apiKeyEnv THEN "sk-key"
        ELSE IF \E k \in modelled : n = PROVIDERS[k].modelEnv THEN "env-model"
        ELSE IF n = "IP_RATE_LIMIT" THEN rateLimit
        ELSE IF n \in {"SUPABASE_URL", "SUPABASE_SERVICE_ROLE_KEY"} /\ sb THEN "set"
        ELSE NoVal]

SupabaseEnv == Truthy(env["SUPABASE_URL"]) /\ Truthy(env["SUPABASE_SERVICE_ROLE_KEY"])

\* state after module initialisation, for an environment drawn from envs
\* and a table that already holds rows
Boot(envs, rows) ==
    /\ env \in envs
    /\ supabase \in (IF SupabaseEnv THEN {TRUE, FALSE} ELSE {FALSE})
    /\ now = 0
    /\ ipRequestCache = <<>>
    /\ store = rows
    /\ dbClock = Cardinality(rows)
    /\ served = 0
    /\ admissions = <<>>
    /\ req = IdleReq
    /\ client = IdleClient

\* ------------------------------------------------------------------ inputs
AskAiPath == [method |-> "POST", base |-> "/api/ask-ai", ext |-> "", exists |-> FALSE]

CheckEnvPath == [method |-> "GET", base |-> "/api/check-env", ext |-> "", exists |-> FALSE]

AssetPath == [method |-> "GET", base |-> "/assets/app", ext |-> "js", exists |-> TRUE]

MissingAssetPath == [method |-> "GET", base |-> "/assets/gone", ext |-> "png", exists |-> FALSE]

Prompt == <<"h", "i">>

PromptParts == {<<>>} \cup {("prompt" :> p) : p \in {<<>>, <<" ", "\n">>, Prompt}}

ProviderParts == {<<>>} \cup {("provider" :> p) : p \in {"bogus", "openai", "groq", "gemini"}}

SessionParts == {<<>>} \cup {("sessionId" :> x) : x \in {"s1"}}

ModelParts == {<<>>, ("model" :> "custom-model")}

RouterBodies ==
    {a @@ b @@ c @@ d : a \in PromptParts, b \in ProviderParts, c \in SessionParts,
                        d \in ModelParts}

RouterEnvs ==
    {MkEnv(keyed, {"groq"}, NoVal, sb) :
        keyed \in {{}, {"groq"}, {"openai", "gemini"}, {"openrouter", "xai"}},
        sb \in BOOLEAN}

\* ------------------------------------------------- fallback router (Spec)
Init == Boot(RouterEnvs, {})

Next ==
    \/ \E body \in RouterBodies : Arrive(MaxReq, <<>>, "10.0.0.1", AskAiPath, body)
    \/ \E fault \in BOOLEAN : LoadHistory(fault)
    \/ \E fault \in BOOLEAN : SaveUser(fault)
    \/ \E reply \in Replies : ProviderReplies(reply)
    \/ \E fault \in BOOLEAN : SaveAssistant(fault)

Spec == Init /\ [][Next]_vars

\* ------------------------------------------------ rate limiter (SpecLimiter)
LimiterEnvs == {MkEnv({}, {}, rateLimit, FALSE) : rateLimit \in {"0", "1", "2"}}

LimiterPaths == {CheckEnvPath, AskAiPath, AssetPath, MissingAssetPath}

\* x-forwarded-for values and connection address of the two clients
LimiterClients == {<<<<"1.2.3.4", "10.0.0.1">>, "10.0.0.1">>, <<<<>>, "10.0.0.1">>}

InitLimiter == Boot(LimiterEnvs, {})

NextLimiter ==
    \/ \E c \in LimiterClients, path \in LimiterPaths :
          Arrive(MaxLimReq, c[1], c[2], path, <<>>)
    \/ \E d \in TickSteps : Tick(d)
    \/ Sweep

SpecLimiter == InitLimiter /\ [][NextLimiter]_vars

\* ------------------------------------------- conversation store (SpecStore)
\* rows written before this process started: MaxStored turns of session s1
\* and one turn of session s2
OldRows ==
    {[session_id |-> "s1", role |-> IF j % 2 = 1 THEN "user" ELSE "assistant",
      content |-> <<"o", "l", "d">>, timestamp |-> 0, created_at |-> j, rid |-> 0] :
        j \in 1..MaxStored}
    \cup {[session_id |-> "s2", role |-> "user", content |-> <<"o", "l", "d">>,
           timestamp |-> 0, created_at |-> MaxStored + 1, rid |-> 0]}

StoreBodies == {("prompt" :> Prompt) @@ ("sessionId" :> x) : x \in {"s1", "s2"}}

InitStore == Boot({MkEnv({"openai"}, {}, NoVal, TRUE)}, OldRows)

NextStore ==
    \/ \E body \in StoreBodies : Arrive(MaxReq, <<>>, "10.0.0.1", AskAiPath, body)
    \/ \E fault \in BOOLEAN : LoadHistory(fault)
    \/ \E fault \in BOOLEAN : SaveUser(fault)
    \/ \E reply \in Replies : ProviderReplies(reply)
    \/ \E fault \in BOOLEAN : SaveAssistant(fault)

SpecStore == InitStore /\ [][NextStore]_vars

\* ------------------------------------------------ cancellation (SpecCancel)
CancelBodies == {("prompt" :> Prompt) @@ c : c \in SessionParts}

InitCancel == Boot({MkEnv({"openai", "gemini"}, {}, NoVal, TRUE)}, {})

NextCancel ==
    \/ \E body \in CancelBodies : Arrive(MaxReq, <<>>, "10.0.0.1", AskAiPath, body)
    \/ \E fault \in BOOLEAN : LoadHistory(fault)
    \/ \E fault \in BOOLEAN : SaveUser(fault)
    \/ \E reply \in Replies : ProviderReplies(reply)
    \/ \E fault \in BOOLEAN : SaveAssistant(fault)
    \/ Cancel

SpecCancel == InitCancel /\ [][NextCancel]_vars

\* ---------------------------------------- conversation composed (SpecCompose)
TemplateParts == {<<>>} \cup {("templateId" :> x) : x \in {"portfolio", "no-such-template"}}

StackParts == {<<>>, ("stack" :> "React + Express")}

ComposeBodies ==
    {("prompt" :> Prompt) @@ c @@ t @@ k : c \in SessionParts, t \in TemplateParts,
                                          k \in StackParts}

InitCompose == Boot({MkEnv({"openai", "gemini"}, {}, NoVal, TRUE)}, {})

NextCompose ==
    \/ \E body \in ComposeBodies : Arrive(MaxReq, <<>>, "10.0.0.1", AskAiPath, body)
    \/ \E fault \in BOOLEAN : LoadHistory(fault)
    \/ \E fault \in BOOLEAN : SaveUser(fault)
    \/ \E reply \in Replies : ProviderReplies(reply)
    \/ \E fault \in BOOLEAN : SaveAssistant(fault)

SpecCompose == InitCompose /\ [][NextCompose]_vars

\* ----------------------------------------------- connection test (SpecTest)
TestConnectionPath ==
    [method |-> "POST", base |-> "/api/test-connection", ext |-> "", exists |-> FALSE]

TestBodies == {b @@ d : b \in ProviderParts \cup {("provider" :> "")}, d \in ModelParts}

InitTest == Boot({MkEnv({"openai", "gemini"}, {"openai"}, NoVal, FALSE)}, {})

NextTest ==
    \/ \E c \in LimiterClients, body \in TestBodies :
          Arrive(MaxReq, c[1], c[2], TestConnectionPath, body)
    \/ \E reply \in Replies : TestReplies(reply)

SpecTest == InitTest /\ [][NextTest]_vars

\* ------------------------------- limiter under in-flight requests (SpecConc)
ConcEnvs == {MkEnv({"openai"}, {}, rateLimit, FALSE) : rateLimit \in {"1", "2"}}

\* requests that open a handler: one that waits for a provider, one that
\* is answered at once
ConcRequests == {<<AskAiPath, ("prompt" :> Prompt)>>, <<CheckEnvPath, <<>>>>}

InitConc == Boot(ConcEnvs, {})

NextConc ==
    \/ \E c \in LimiterClients, q \in ConcRequests : Arrive(MaxLimReq, c[1], c[2], q[1], q[2])
    \/ \E c \in LimiterClients, path \in {CheckEnvPath, MissingAssetPath} :
          ArriveDuring(MaxLimReq, c[1], c[2], path)
    \/ \E reply \in Replies : ProviderReplies(reply)
    \/ \E d \in TickSteps : Tick(d)
    \/ Sweep

SpecConc == InitConc /\ [][NextConc]_vars

\* ------------------------------------------------- SDK adapter (SpecGemini)
\* text of the message at each position of a conversation
Texts == <<"m1", "m2", "m3", "m4", "m5", "m6">>

MessageKinds == {"system", "system-empty", "user", "assistant", "tool"}

\* the conversation that has the given kind of message at each position
Conversation(kinds) ==
    [j \in 1..Len(kinds) |->
        [role |-> IF kinds[j] = "system-empty" THEN "system" ELSE kinds[j],
         content |-> IF kinds[j] = "system-empty" THEN <<>> ELSE <<Texts[j]>>]]

Conversations == {Conversation(kinds) : kinds \in UNION {[1..n -> MessageKinds] : n \in 0..MaxMsgs}}

InitGemini ==
    /\ env = MkEnv({"gemini"}, {}, NoVal, FALSE)
    /\ supabase = FALSE
    /\ now = 0
    /\ ipRequestCache = <<>>
    /\ store = {}
    /\ dbClock = 0
    /\ served = 0
    /\ admissions = <<>>
    /\ client = IdleClient
    /\ \E messages \in Conversations, modelName \in {"", "gemini-2.0-flash"} :
          req = [IdleReq EXCEPT !.pc = "sdk", !.messages = messages,
                                !.modelToUse = modelName]

NextGemini == GeminiGenerate

SpecGemini == InitGemini /\ [][NextGemini]_vars

\* ----------------------------------------- generation options (SpecOptions)
OptionEnvs ==
    {[MkEnv({"openai", "gemini"}, {}, NoVal, FALSE)
         EXCEPT !["DEFAULT_MAX_TOKENS"] = t, !["DEFAULT_TEMPERATURE"] = p] :
        t \in {NoVal, "0", "4000"}, p \in {NoVal, "0", "0.2"}}

OptionBodies ==
    {("prompt" :> Prompt) @@ t @@ p :
        t \in {<<>>} \cup {("maxTokens" :> x) : x \in {0, 256}},
        p \in {<<>>} \cup {("temperature" :> x) : x \in {0, 3}}}

InitOptions == Boot(OptionEnvs, {})

NextOptions ==
    \/ \E body \in OptionBodies : Arrive(MaxReq, <<>>, "10.0.0.1", AskAiPath, body)
    \/ \E reply \in Replies : ProviderReplies(reply)

SpecOptions == InitOptions /\ [][NextOptions]_vars

\* ------------------------------------------------- limiter keys (SpecKeys)
\* header and connection address of the callers: a proxied caller, a direct
\* one, a header whose first value is empty, no address at all, and a
\* header that names the direct caller's address
KeyClients ==
    {<<<<"1.2.3.4", "10.0.0.1">>, "10.0.0.1">>,
     <<<<>>, "10.0.0.1">>,
     <<<<"", "5.6.7.8">>, "10.0.0.2">>,
     <<<<>>, "">>,
     <<<<"10.0.0.1">>, "10.0.0.9">>}

InitKeys == Boot({MkEnv({}, {}, "1", FALSE)}, {})

NextKeys ==
    \/ \E c \in KeyClients : Arrive(MaxLimReq, c[1], c[2], CheckEnvPath, <<>>)
    \/ \E d \in TickSteps : Tick(d)

SpecKeys == InitKeys /\ [][NextKeys]_vars

\* ------------------------------------------ admission and routes (SpecRoutes)
HealthPath == [method |-> "GET", base |-> "/api/health", ext |-> "", exists |-> FALSE]

TemplatesPath == [method |-> "GET", base |-> "/api/templates", ext |-> "", exists |-> FALSE]

\* requests to every route behind the limiter; /api/ask-ai once with a
\* body that fails validation and once with one that reaches the providers
RouteRequests ==
    {<<HealthPath, <<>>>>, <<CheckEnvPath, <<>>>>, <<TemplatesPath, <<>>>>,
     <<TestConnectionPath, ("provider" :> "openai")>>,
     <<AskAiPath, ("prompt" :> <<" ">>)>>,
     <<AskAiPath, ("prompt" :> Prompt) @@ ("sessionId" :> "s1")>>}

InitRoutes == Boot({MkEnv({"openai"}, {}, rateLimit, TRUE) : rateLimit \in {"1", "2"}}, {})

NextRoutes ==
    \/ \E q \in RouteRequests : Arrive(MaxLimReq, <<>>, "10.0.0.1", q[1], q[2])
    \/ \E fault \in BOOLEAN : LoadHistory(fault)
    \/ \E fault \in BOOLEAN : SaveUser(fault)
    \/ \E reply \in Replies : ProviderReplies(reply)
    \/ \E fault \in BOOLEAN : SaveAssistant(fault)
    \/ \E reply \in Replies : TestReplies(reply)

SpecRoutes == InitRoutes /\ [][NextRoutes]_vars

\* ---------------------------------------------- AskAI component (SpecClient)
TypedPrompts == {<<>>, <<" ">>, Prompt}

\* how a fetch can end: a usable answer, a status that is not ok, a body
\* without ok or response, a network failure, the signal aborted
FetchOutcomes ==
    {<<"ok", [ok |-> TRUE, response |-> <<"o", "k">>, providerUsed |-> "openai"]>>,
     <<"http_error", [status |-> 500]>>,
     <<"invalid", [ok |-> FALSE]>>,
     <<"network", [name |-> "TypeError"]>>,
     <<"abort", [name |-> "AbortError"]>>}

InitClient == Boot({MkEnv({}, {}, NoVal, FALSE)}, {})

NextClient ==
    \/ \E trigger \in {"click", "enter"} : callAi(trigger)
    \/ \E text \in TypedPrompts : setPrompt(text)
    \/ Render
    \/ stopGeneration
    \/ \E k \in 1..MaxCalls, o \in FetchOutcomes : FetchSettles(k, o[1], o[2])

SpecClient == InitClient /\ [][NextClient]_vars

\* ------------------------------------------------------------- properties
Answered == req.pc = "done"

AskAiAnswered == Answered /\ IsAskAi(req.path) /\ req.admitted

\* the prompt is absent, empty or consists of whitespace only
BlankPrompt(body) ==
    ~Has(body, "prompt") \/ \A j \in 1..Len(body.prompt) : IsSpace(body.prompt[j])

\* rows of the table written by request rid with the given role
Turns(rid, role) == {r \in store : r.rid = rid /\ r.role = role}

NoKeyConfigured == \A k \in DOMAIN PROVIDERS : ~Truthy(env[PROVIDERS[k].apiKeyEnv])

\* effective model of provider k for a body: request, else environment, else default
EffectiveModel(body, k) ==
    IF Has(body, "model") /\ body.model # "" THEN body.model
    ELSE IF env[PROVIDERS[k].modelEnv] \notin {NoVal, ""} THEN env[PROVIDERS[k].modelEnv]
    ELSE PROVIDERS[k].defaultModel

\* C1: when an earlier candidate failed and a later one answered, the success
\* response names the provider and model of the one that answered, and, with
\* a session id and a working store, the request has written exactly one
\* user turn and one assistant turn, however many attempts failed before.
C1_FallbackSuccess ==
    (AskAiAnswered /\ req.res.status = 200 /\ Len(req.invoked) >= 2) =>
        LET B == req.invoked[Len(req.invoked)]
        IN /\ req.res.providerUsed = PROVIDERS[B].name
           /\ req.res.modelUsed = EffectiveModel(req.body, B)
           /\ (Has(req.body, "sessionId") /\ req.body.sessionId # ""
               /\ supabase /\ ~req.faulted) =>
                 /\ Cardinality(Turns(req.rid, "user")) = 1
                 /\ Cardinality(Turns(req.rid, "assistant")) = 1
                 /\ \A r \in Turns(req.rid, "user") \cup Turns(req.rid, "assistant") :
                        r.session_id = req.body.sessionId

C1_Witness ==
    /\ AskAiAnswered /\ req.res.status = 200 /\ Len(req.invoked) >= 2
    /\ Has(req.body, "sessionId") /\ supabase /\ ~req.faulted
    /\ Cardinality(Turns(req.rid, "user")) = 1
    /\ req.res.providerUsed # PROVIDERS[req.providersToTry[1]].name

\* C2: an /api/ask-ai request whose prompt is missing, empty or whitespace
\* only is answered with 400 in the step in which it reaches the handler: no
\* adapter is invoked, history is not read and no turn is written for it.
C2_BlankPromptRejected ==
    (req.pc # "idle" /\ IsAskAi(req.path) /\ req.admitted /\ BlankPrompt(req.body)) =>
        /\ req.pc = "done"
        /\ req.res.status = 400
        /\ req.invoked = <<>>
        /\ ~req.historyRead
        /\ {r \in store : r.rid = req.rid} = {}

C2_Witness ==
    /\ AskAiAnswered /\ req.res.status = 400
    /\ Has(req.body, "prompt") /\ req.body.prompt # <<>>
    /\ Has(req.body, "sessionId") /\ supabase /\ ~NoKeyConfigured

\* C3: the adapter of a requested registry provider that has no API key is
\* never invoked for that request.
C3_UnconfiguredNeverInvoked ==
    (req.pc # "idle" /\ IsAskAi(req.path) /\ Has(req.body, "provider")
     /\ Known(req.body.provider) /\ ~Truthy(env[PROVIDERS[req.body.provider].apiKeyEnv])) =>
        \A j \in 1..Len(req.invoked) : req.invoked[j] # req.body.provider

C3_Witness ==
    /\ AskAiAnswered /\ Has(req.body, "provider") /\ Known(req.body.provider)
    /\ ~Truthy(env[PROVIDERS[req.body.provider].apiKeyEnv])
    /\ Len(req.invoked) >= 1
    /\ req.res.status = 200

\* C8 (as claimed): with no API key configured, every request with a
\* non-blank prompt gets 500 "No AI providers configured ..." and invokes no
\* adapter, whatever its provider field is.
C8_NoProviderFailFast ==
    (AskAiAnswered /\ ~BlankPrompt(req.body) /\ NoKeyConfigured) =>
        /\ req.res.status = 500
        /\ req.res.message = <<"No AI providers configured with API keys">>
        /\ req.invoked = <<>>

\* C9 (as claimed): the all-providers-failed response lists exactly the
\* providers whose adapter was invoked, in attempt order, and its message
\* carries the reason of the last failed attempt.
C9_AttemptedAreInvoked ==
    (AskAiAnswered /\ req.res.status = 500 /\ Has(req.res, "providersAttempted")) =>
        /\ req.res.providersAttempted = [j \in 1..Len(req.invoked) |-> PROVIDERS[req.invoked[j]].name]
        /\ Len(req.invoked) >= 1 =>
              req.res.message[2] = PROVIDERS[req.invoked[Len(req.invoked)]].name

\* C10 (as claimed): a request answered with a failure leaves no turn of its
\* own in the store.
C10_FailureWritesNothing ==
    (AskAiAnswered /\ req.res.status >= 400) => {r \in store : r.rid = req.rid} = {}

\* the entries of a client's admission history that lie in the window ending at t
InWindow(ip, t) ==
    LET log == CacheOf(admissions, ip)
    IN Cardinality({j \in 1..Len(log) : log[j] > t - WINDOW_MS})

ClientIps == {ClientIp(c[1], c[2]) : c \in LimiterClients}

\* C4: with limit N > 0, a client with N requests admitted in the trailing
\* window is rejected with 429, waitTimeMinutes >= 1 and resetTime in the
\* future; with fewer (in particular once its oldest admission is one window
\* old) it is admitted.
C4_WindowAdmission ==
    IP_RATE_LIMIT > 0 =>
        /\ \A ip \in ClientIps :
            LET rl == RateLimit(ipRequestCache, CheckEnvPath, ip, now)
            IN IF InWindow(ip, now) >= IP_RATE_LIMIT
               THEN /\ rl.limited
                    /\ rl.res.status = 429
                    /\ rl.res.waitTimeMinutes >= 1
                    /\ rl.res.resetTime > now
               ELSE ~rl.limited
        /\ (Answered /\ req.res.status = 429) =>
               /\ req.res.waitTimeMinutes >= 1
               /\ req.res.resetTime > req.at
               /\ ~req.admitted

C4_Witness ==
    /\ IP_RATE_LIMIT > 0
    /\ Answered /\ req.res.status = 429
    /\ Len(CacheOf(admissions, req.clientIp)) > IP_RATE_LIMIT

\* C5 (as claimed): IP_RATE_LIMIT=0 disables the limiter: nothing is
\* recorded, nothing is rejected and /api/check-env reports enabled = false.
C5_ZeroDisables ==
    env["IP_RATE_LIMIT"] = "0" =>
        /\ \A ip \in DOMAIN ipRequestCache : ipRequestCache[ip] = <<>>
        /\ req.res.status # 429
        /\ (Answered /\ IsCheckEnv(req.path)) => ~req.res.rateLimiting.enabled

Sessions == {"s1", "s2"}

\* C6: history(sessionId) has at most 50 turns, all stored turns of that
\* session, oldest first; so does the history a request puts in its messages.
C6_HistoryBounded ==
    /\ \A x \in Sessions : \A fault \in BOOLEAN :
          LET h == getChatHistory(x, fault)
          IN /\ Len(h) <= 50
             /\ \A j \in 1..Len(h) : h[j] \in store /\ h[j].session_id = x
             /\ \A j \in 1..Len(h) : \A k \in 1..Len(h) :
                    j < k => h[j].created_at < h[k].created_at
    /\ req.historyRead => Len(req.messages) <= 50 + 2

C6_Witness ==
    /\ supabase
    /\ Cardinality({r \in store : r.session_id = "s1"}) > 50
    /\ req.historyRead /\ req.body.sessionId = "s1"
    /\ Len(req.messages) = 50 + 2

\* C7 (as claimed): when a session holds more than 50 turns, its history
\* contains the most recently written turn of the session.
C7_HistoryIsMostRecent ==
    \A x \in Sessions :
        LET rows == {r \in store : r.session_id = x}
            h == getChatHistory(x, FALSE)
        IN (supabase /\ Cardinality(rows) > 50) =>
              \E j \in 1..Len(h) : \A q \in rows : q.created_at <= h[j].created_at

\* C11: once the caller has cancelled a request whose provider call is
\* pending, no further adapter is invoked for it, no further turn of it is
\* stored, and it is not answered as a failure.
C11_CancelStopsRequest ==
    req.cancelled =>
        /\ Len(req.invoked) = req.cancelInvoked
        /\ Cardinality({row \in store : row.rid = req.rid}) = req.cancelTurns
        /\ ~(Answered /\ ~req.res.ok)

\* the order the registry and the environment prescribe for a request: the
\* requested provider when it is a registry key with an API key, then the
\* other keys that have an API key, in declaration order
ExpectedOrder(body) ==
    LET p == Field(body, "provider")
        Configured(k) == env[PROVIDERS[k].apiKeyEnv] \notin {NoVal, ""}
        Other(k) == k # p /\ Configured(k)
    IN (IF p \in DOMAIN PROVIDERS /\ Configured(p) THEN <<p>> ELSE <<>>)
       \o SelectSeq(ProviderKeys, Other)

\* C12: the adapters of a request are invoked in the order "requested
\* provider if known and configured, then the other configured registry
\* entries in declaration order": what has been invoked so far is a prefix
\* of that order, holds no provider twice, and is the whole order when the
\* request ends with every candidate failed.
C12_InvocationOrder ==
    (IsAskAi(req.path) /\ req.pc # "idle") =>
        LET order == ExpectedOrder(req.body)
        IN /\ Len(req.invoked) <= Len(order)
           /\ \A j \in 1..Len(req.invoked) : req.invoked[j] = order[j]
           /\ \A j, k \in 1..Len(req.invoked) : j # k => req.invoked[j] # req.invoked[k]
           /\ (Answered /\ req.admitted /\ ~BlankPrompt(req.body) /\ req.res.status = 500)
                 => req.invoked = order

\* the requested provider is declared last, is invoked first and fails, and
\* the provider declared first is invoked after it
C12_Witness ==
    /\ Answered /\ req.res.status = 500
    /\ Field(req.body, "provider") = "gemini"
    /\ req.invoked = <<"gemini", "openai">>

\* the system message a request calls for: the template's fragment and the
\* base instruction, or the base instruction alone, after the stack hint
ExpectedSystem(body) ==
    LET t == Field(body, "templateId")
        st == Field(body, "stack")
        core == IF t \in DOMAIN TEMPLATES
                THEN <<TEMPLATES[t].systemPrompt, "\n\n", FULL_STACK_SYSTEM_PROMPT>>
                ELSE <<FULL_STACK_SYSTEM_PROMPT>>
    IN IF st \notin {NoVal, ""} THEN <<"Project Stack: ", st, "\n\n">> \o core ELSE core

\* C13: every adapter invoked for a request is passed the system message
\* (template fragment and base instruction, or base instruction alone,
\* prefixed by the stack hint when there is one), then the retrieved history
\* in order, then the new prompt as a user message; all adapters of the
\* request are passed the same conversation.
C13_ConversationComposed ==
    (IsAskAi(req.path) /\ req.pc # "idle") =>
        /\ \A c \in 1..Len(req.calls) :
              LET m == req.calls[c].messages
                  h == req.history
              IN /\ Len(m) = Len(h) + 2
                 /\ m[1] = [role |-> "system", content |-> ExpectedSystem(req.body)]
                 /\ \A j \in 1..Len(h) :
                       m[j + 1] = [role |-> h[j].role, content |-> h[j].content]
                 /\ m[Len(m)] = [role |-> "user", content |-> req.body.prompt]
        /\ \A c, d \in 1..Len(req.calls) : req.calls[c].messages = req.calls[d].messages

\* a request with a known template and a stack, in a session that has
\* history, whose first candidate failed so that a second one was invoked
C13_Witness ==
    /\ IsAskAi(req.path) /\ Len(req.calls) >= 2
    /\ Len(req.history) >= 2
    /\ Field(req.body, "templateId") = "portfolio"
    /\ Has(req.body, "stack")

\* C14: every adapter invoked for a request is passed the request's model
\* when it has one, else the model the environment sets for that provider,
\* else the provider's default model; a success response reports as
\* modelUsed the model passed to the provider that answered.
C14_EffectiveModel ==
    (IsAskAi(req.path) /\ req.pc # "idle") =>
        /\ Len(req.calls) = Len(req.invoked)
        /\ \A c \in 1..Len(req.calls) :
              req.calls[c].model = EffectiveModel(req.body, req.invoked[c])
        /\ (Answered /\ req.res.status = 200) =>
              /\ Len(req.calls) >= 1
              /\ req.res.modelUsed = req.calls[Len(req.calls)].model

\* a request with an explicit model whose first candidate failed: the
\* override was passed to the fallback provider, which answered
C14_Witness ==
    /\ AskAiAnswered /\ req.res.status = 200
    /\ Has(req.body, "model")
    /\ Len(req.invoked) >= 2
    /\ req.res.modelUsed = req.body.model

\* a provider reply that counts as an answer: 2xx with text that is not blank
GoodReply(reply) ==
    reply.kind = "ok" /\ \E j \in 1..Len(reply.text) : reply.text[j] \notin {" ", "\t", "\n"}

\* The response of a request that uses no store, as a function of its body,
\* the providers invoked and what they came back with.
StatelessResponse(body, invoked, replies) ==
    LET n == Len(replies)
        p == Field(body, "provider")
        Other(k) == k # p /\ env[PROVIDERS[k].apiKeyEnv] \notin {NoVal, ""}
        listed == (IF p \in DOMAIN PROVIDERS THEN <<p>> ELSE <<>>)
                  \o SelectSeq(ProviderKeys, Other)
    IN IF listed = <<>>
       THEN [status |-> 500, ok |-> FALSE,
             message |-> <<"No AI providers configured with API keys">>]
       ELSE IF n >= 1 /\ GoodReply(replies[n])
       THEN [status |-> 200, ok |-> TRUE, response |-> replies[n].text,
             modelUsed |-> EffectiveModel(body, invoked[n]),
             providerUsed |-> PROVIDERS[invoked[n]].name,
             tokensUsed |-> replies[n].tokens]
       ELSE [status |-> 500, ok |-> FALSE,
             message |-> <<"All AI providers failed. Last error: ">>
                         \o (IF n = 0 THEN <<"null">>
                             ELSE <<PROVIDERS[invoked[n]].name, ": ",
                                    IF replies[n].kind = "ok" THEN "Empty response received"
                                    ELSE replies[n].reason>>),
             providersAttempted |-> [j \in 1..Len(listed) |-> PROVIDERS[listed[j]].name]]

\* C15: a request whose store is unconfigured or whose store calls fail is
\* never answered with an error for that reason: a failed or impossible read
\* gives an empty history (the adapters get the system and the user message
\* only), a failed or impossible write stores nothing, and the response is
\* the one a request without a session gets for the same provider outcomes.
C15_StoreNeverFailsRequest ==
    (IsAskAi(req.path) /\ req.admitted /\ ~BlankPrompt(req.body)
     /\ (~Has(req.body, "sessionId") \/ ~supabase \/ req.faults # {})) =>
        /\ (~supabase \/ "read" \in req.faults) =>
              /\ req.history = <<>>
              /\ \A c \in 1..Len(req.calls) : Len(req.calls[c].messages) = 2
        /\ (~supabase \/ "user" \in req.faults) => Turns(req.rid, "user") = {}
        /\ (~supabase \/ "assistant" \in req.faults) => Turns(req.rid, "assistant") = {}
        /\ Answered => req.res = StatelessResponse(req.body, req.invoked, req.replies)

\* a request in a session that has stored turns: the read of the history and
\* both writes failed, and the request was answered with the provider's text
C15_Witness ==
    /\ AskAiAnswered /\ req.res.status = 200
    /\ supabase /\ req.faults = {"read", "user", "assistant"}
    /\ \E row \in store : row.session_id = req.body.sessionId

\* the extensions of the static-asset pattern
AssetExtensions == {"js", "css", "ico", "png", "jpg", "svg", "woff", "woff2", "ttf", "eot"}

\* C16: the arrival of a request whose path ends in a static-asset
\* extension leaves every client's timestamp sequence as it was, is not
\* counted as an admission and is not answered 429, whatever the client's
\* current count.
C16_StaticAssetsExempt ==
    [][(served' = served + 1 /\ req'.rid = served' /\ req'.path.ext \in AssetExtensions) =>
           /\ ipRequestCache' = ipRequestCache
           /\ admissions' = admissions
           /\ req'.res.status # 429]_vars

\* a client that has used up its quota asks for an asset that is not on
\* disk, so the request reaches the limiter, and is answered 200
C16_Witness ==
    /\ Answered /\ req.rid = served
    /\ req.path.ext = "png" /\ ~req.path.exists
    /\ IP_RATE_LIMIT > 0
    /\ InWindow(req.clientIp, now) >= IP_RATE_LIMIT
    /\ req.res.status = 200

TestAnswered == Answered /\ IsTestConnection(req.path) /\ req.admitted

\* the provider of a connection test is missing, unknown or has no API key
NoUsableProvider(body) ==
    LET p == Field(body, "provider")
    IN p \notin DOMAIN PROVIDERS \/ env[PROVIDERS[p].apiKeyEnv] \in {NoVal, ""}

C18_QuotaUnderInterleaving ==
    IP_RATE_LIMIT > 0 =>
        /\ \A ip \in DOMAIN ipRequestCache : Len(ipRequestCache[ip]) <= IP_RATE_LIMIT
        /\ \A ip \in DOMAIN admissions :
              LET log == admissions[ip]
              IN \A j \in 1..Len(log) :
                    Cardinality({k \in 1..Len(log) :
                                    log[k] > log[j] - WINDOW_MS /\ log[k] <= log[j]})
                       <= IP_RATE_LIMIT

\* while a request waits for its provider, a later request of the same
\* client has gone through the limiter and the client is at capacity
C18_Witness ==
    /\ IP_RATE_LIMIT > 0
    /\ req.pc = "attempt"
    /\ served > req.rid
    /\ Len(CacheOf(ipRequestCache, req.clientIp)) = IP_RATE_LIMIT
    /\ Len(CacheOf(admissions, req.clientIp)) > IP_RATE_LIMIT

\* the message texts of the exceptions an adapter call can throw
ExceptionTexts == {q.reason : q \in {r \in Replies : r.kind = "throw"}}

\* C19: a failure response of /api/ask-ai or /api/test-connection carries
\* ok:false and a message that is not empty, and no part of the message is
\* the text of an exception thrown inside the server.
C19_FailureMessagesOpaque ==
    (Answered /\ req.admitted /\ (IsAskAi(req.path) \/ IsTestConnection(req.path))
     /\ req.res.status >= 400) =>
        /\ ~req.res.ok
        /\ req.res.message # <<>>
        /\ \A j \in 1..Len(req.res.message) : req.res.message[j] \notin ExceptionTexts

\* some adapter call of the request has come back with an answer
HasAnswer == \E j \in 1..Len(req.replies) : GoodReply(req.replies[j])

\* C20: within one /api/ask-ai request no provider's adapter is invoked
\* twice; an answer (non-empty text) can only be the reply of the last
\* adapter invoked, after it no adapter is invoked for the request, and the
\* response of a request, once sent, is never replaced by another.
C20_SinglePassSingleResponse ==
    /\ [](IsAskAi(req.path) =>
            /\ \A j, k \in 1..Len(req.invoked) : j # k => req.invoked[j] # req.invoked[k]
            /\ \A j \in 1..Len(req.replies) :
                  GoodReply(req.replies[j]) =>
                      (j = Len(req.invoked) /\ req.pc \in {"saveAssistant", "done"})
            /\ (Answered /\ req.res.status = 200) => HasAnswer
            /\ (Answered /\ HasAnswer) => req.res.status = 200)
    /\ [][(IsAskAi(req.path) /\ req'.rid = req.rid /\ (HasAnswer \/ req.res # NoRes)) =>
              /\ req'.invoked = req.invoked
              /\ req.res # NoRes => req'.res = req.res]_vars

\* two providers are configured, the first one answered and the response is
\* sent with the second one never invoked
C20_Witness ==
    /\ AskAiAnswered /\ req.res.status = 200
    /\ Len(req.invoked) = 1
    /\ Len(ExpectedOrder(req.body)) = 2

\* C21: when the adapter call of a candidate fails (non-2xx reply, exception,
\* empty or blank text), its reason is the recorded last error and either the
\* next candidate's adapter has been invoked and no response is sent, or
\* every configured candidate has been invoked and the response is the 500
\* of exhaustion.
C21_FailuresFallThrough ==
    (IsAskAi(req.path) /\ req.replies # <<>> /\ ~GoodReply(req.replies[Len(req.replies)])) =>
        LET n == Len(req.replies)
            last == req.replies[n]
            reason == IF last.kind = "ok" THEN "Empty response received" ELSE last.reason
        IN /\ req.lastError = <<PROVIDERS[req.invoked[n]].name, ": ", reason>>
           /\ \/ /\ req.pc = "attempt"
                 /\ req.res = NoRes
                 /\ Len(req.invoked) = n + 1
              \/ /\ req.pc = "done"
                 /\ req.res.status = 500 /\ ~req.res.ok
                 /\ req.invoked = ExpectedOrder(req.body)
                 /\ Len(req.invoked) = n

\* the first candidate replied non-2xx, the second returned blank text, and
\* only then was the failure surfaced
C21_Witness ==
    /\ AskAiAnswered /\ req.res.status = 500
    /\ Len(req.replies) = 2
    /\ req.replies[1].kind = "http_error"
    /\ req.replies[2].kind = "ok"

\* a request arrives in this step and is followed as req
Arrival == served' = served + 1 /\ req'.rid = served'

\* the timestamps of a sequence that are less than one window old at time t
Recent(list, t) ==
    LET Young(x) == x > t - WINDOW_MS
    IN SelectSeq(list, Young)

\* C22: at the admission check of a non-static request (limit N > 0) the
\* client's timestamps that left the window are purged first; the request is
\* rejected exactly when N or more remain; a rejected request leaves the
\* purged sequence as it is and an admitted one appends its own timestamp,
\* once.
C22_PurgeCheckRecord ==
    [][(Arrival /\ IP_RATE_LIMIT > 0 /\ req'.path.ext \notin AssetExtensions) =>
          LET ip == req'.clientIp
              kept == Recent(CacheOf(ipRequestCache, ip), now)
          IN /\ (req'.res.status = 429) <=> (Len(kept) >= IP_RATE_LIMIT)
             /\ req'.res.status = 429 =>
                   /\ ipRequestCache'[ip] = kept
                   /\ admissions' = admissions
             /\ req'.res.status # 429 =>
                   /\ ipRequestCache'[ip] = Append(kept, now)
                   /\ CacheOf(admissions', ip) = Append(CacheOf(admissions, ip), now)]_vars

\* a client at its limit of one is rejected and its sequence still holds the
\* admitted request's timestamp only
C22_Witness ==
    /\ IP_RATE_LIMIT = 1
    /\ Answered /\ req.rid = served /\ served >= 3
    /\ req.res.status = 429
    /\ Len(CacheOf(ipRequestCache, req.clientIp)) = 1
    /\ Len(CacheOf(admissions, req.clientIp)) = 1
    /\ \A ip \in DOMAIN admissions : ip = req.clientIp

\* what the limiter decides for client ip at time t on a given cache: whether
\* it rejects, and the resetTime it then returns (0 when it admits)
Decision(cache, ip, t) ==
    LET kept == Recent(CacheOf(cache, ip), t)
        rejected == Len(kept) >= IP_RATE_LIMIT
        oldest == CHOOSE x \in {kept[j] : j \in 1..Len(kept)} :
                      \A j \in 1..Len(kept) : x <= kept[j]
    IN [limited |-> rejected,
        resetTime |-> IF rejected THEN oldest + WINDOW_MS ELSE 0]

\* the cache changes while no request arrives and no time passes: a sweep
SweepStep == served' = served /\ now' = now /\ ipRequestCache' # ipRequestCache

\* C23: a sweep leaves no key with an empty sequence and no timestamp that
\* is a window old, and the limiter's decision and resetTime for every client
\* are the same after it as before it; whether or not sweeps have happened,
\* the timestamps that count for a client are those of its admissions within
\* the window, so later decisions are those of a run without sweeps.
C23_SweepIsInvisible ==
    /\ [][SweepStep =>
             /\ \A ip \in DOMAIN ipRequestCache' :
                   /\ Len(ipRequestCache'[ip]) > 0
                   /\ \A j \in 1..Len(ipRequestCache'[ip]) :
                         ipRequestCache'[ip][j] > now - WINDOW_MS
             /\ IP_RATE_LIMIT > 0 =>
                   \A ip \in ClientIps, d \in {0} \cup TickSteps :
                      Decision(ipRequestCache', ip, now + d) = Decision(ipRequestCache, ip, now + d)]_vars
    /\ [](IP_RATE_LIMIT > 0 =>
            \A ip \in ClientIps :
               Recent(CacheOf(ipRequestCache, ip), now) = Recent(CacheOf(admissions, ip), now))

\* the sweep has deleted the key of a client whose admissions left the
\* window while another client is still at its limit
C23_Witness ==
    /\ IP_RATE_LIMIT > 0
    /\ \E ip \in DOMAIN admissions : ip \notin DOMAIN ipRequestCache
    /\ \E ip \in DOMAIN ipRequestCache : Len(ipRequestCache[ip]) = IP_RATE_LIMIT

\* positions of a conversation that hold a message of another role than system
ChatPositions(m) == {j \in 1..Len(m) : m[j].role # "system"}

\* the k-th smallest element of a set of positions
RECURSIVE Nth(_, _)
Nth(S, k) ==
    LET least == CHOOSE x \in S : \A y \in S : x <= y
    IN IF k = 1 THEN least ELSE Nth(S \ {least}, k - 1)

\* C24: what the SDK adapter hands over for a conversation with at least one
\* non-system message: the non-system messages in their order, assistant as
\* "model" and every other role as "user", all but the last as the chat
\* history and the text of the last as the prompt; no system message is
\* among them, and the system instruction, when one is passed, is the
\* content of the first system message.
C24_GeminiTranslation ==
    (req.pc = "sdkCalled" /\ ChatPositions(req.messages) # {}) =>
        LET m == req.messages
            out == req.calls[1].sdk
            P == ChatPositions(m)
            n == Cardinality(P)
            Mapped(j) == [role |-> IF m[j].role = "assistant" THEN "model" ELSE "user",
                          parts |-> <<[text |-> m[j].content]>>]
        IN /\ ~out.threw
           /\ Len(out.history) = n - 1
           /\ \A k \in 1..(n - 1) : out.history[k] = Mapped(Nth(P, k))
           /\ out.lastMessage = m[Nth(P, n)].content
           /\ \A j \in 1..Len(m) :
                 (m[j].role = "system" /\ m[j].content # <<>>) =>
                     /\ out.lastMessage # m[j].content
                     /\ \A k \in 1..(n - 1) : out.history[k].parts[1].text # m[j].content
           /\ IF \E j \in 1..Len(m) : m[j].role = "system"
              THEN LET first == CHOOSE j \in 1..Len(m) :
                                   /\ m[j].role = "system"
                                   /\ \A i \in 1..(j - 1) : m[i].role # "system"
                   IN /\ out.systemInstruction.passed <=> m[first].content # <<>>
                      /\ out.systemInstruction.text = m[first].content
              ELSE ~out.systemInstruction.passed

\* a system message, an assistant turn and the new prompt: the instruction
\* is passed, the history is the assistant turn as "model"
C24_Witness ==
    /\ req.pc = "sdkCalled"
    /\ Len(req.messages) = 3
    /\ req.messages[1].role = "system" /\ req.messages[2].role = "assistant"
    /\ req.messages[3].role = "user"
    /\ req.calls[1].sdk.systemInstruction.passed
    /\ Len(req.calls[1].sdk.history) = 1
    /\ req.calls[1].sdk.history[1].role = "model"

\* the number an environment value stands for (temperatures in tenths)
EnvNumber(v) ==
    CASE v = "0" -> 0
      [] v = "0.2" -> 2
      [] v = "4000" -> 4000

\* C25: every adapter call of a request is given the request's maxTokens
\* and temperature when the body has them, else the values of
\* DEFAULT_MAX_TOKENS and DEFAULT_TEMPERATURE when the environment sets
\* them, else 8000 and 0.7; a value of 0 is a value like any other.
C25_OptionPrecedence ==
    (IsAskAi(req.path) /\ req.pc # "idle") =>
        \A c \in 1..Len(req.calls) :
            /\ req.calls[c].options.maxTokens =
                  (IF Has(req.body, "maxTokens") THEN req.body.maxTokens
                   ELSE IF env["DEFAULT_MAX_TOKENS"] # NoVal
                   THEN EnvNumber(env["DEFAULT_MAX_TOKENS"])
                   ELSE MAX_TOKENS_FALLBACK)
            /\ req.calls[c].options.temperature =
                  (IF Has(req.body, "temperature") THEN req.body.temperature
                   ELSE IF env["DEFAULT_TEMPERATURE"] # NoVal
                   THEN EnvNumber(env["DEFAULT_TEMPERATURE"])
                   ELSE TEMPERATURE_FALLBACK)

\* the key a request is counted under
ExpectedKey(xff, remote) ==
    IF Len(xff) >= 1 /\ xff[1] \notin {"", NoVal} THEN xff[1]
    ELSE IF remote \notin {"", NoVal} THEN remote
    ELSE "unknown"

\* C26: a request is counted under the first value of its x-forwarded-for
\* header, else under the connection address, else under "unknown"; its
\* admission check leaves the sequence of every other key as it was, and it
\* is rejected exactly when the admissions logged under its own key within
\* the window have reached the limit.
C26_PerKeyAdmission ==
    [][(Arrival /\ IP_RATE_LIMIT > 0 /\ req'.path.ext \notin AssetExtensions) =>
          LET key == ExpectedKey(req'.xff, req'.remote)
          IN /\ req'.clientIp = key
             /\ DOMAIN ipRequestCache' = DOMAIN ipRequestCache \cup {key}
             /\ \A ip \in DOMAIN ipRequestCache :
                   ip # key => ipRequestCache'[ip] = ipRequestCache[ip]
             /\ \A ip \in DOMAIN admissions :
                   ip # key => CacheOf(admissions', ip) = admissions[ip]
             /\ (req'.res.status = 429) <=>
                   (Len(Recent(CacheOf(admissions, key), now)) >= IP_RATE_LIMIT)]_vars

\* the proxied caller is rejected while the direct caller behind the same
\* address has a sequence of its own
C26_Witness ==
    /\ Answered /\ req.rid = served
    /\ req.xff = <<"1.2.3.4", "10.0.0.1">> /\ req.remote = "10.0.0.1"
    /\ req.clientIp = "1.2.3.4"
    /\ req.res.status = 429
    /\ "10.0.0.1" \in DOMAIN ipRequestCache

\* C27: the resetTime of a 429 is the oldest timestamp the client has left
\* in the window plus 3600000 ms, and waitTimeMinutes minutes reach it; the
\* client's next request is rejected with the same resetTime while it comes
\* before that time, and is admitted when it comes at that time or later,
\* however many rejected requests went before.
C27_ResetTimeAdmits ==
    /\ []((Answered /\ req.rid = served /\ req.res.status = 429) =>
            LET kept == Recent(CacheOf(admissions, req.clientIp), req.at)
                oldest == CHOOSE x \in {kept[j] : j \in 1..Len(kept)} :
                              \A j \in 1..Len(kept) : x <= kept[j]
            IN /\ Len(kept) >= 1
               /\ req.res.resetTime = oldest + WINDOW_MS
               /\ req.res.resetTime > req.at
               /\ req.at + req.res.waitTimeMinutes * MINUTE_MS >= req.res.resetTime)
    /\ [][(Arrival /\ req.rid = served /\ req.res.status = 429
           /\ req'.clientIp = req.clientIp /\ req'.path.ext \notin AssetExtensions) =>
              IF now >= req.res.resetTime
              THEN req'.res.status # 429 /\ req'.admitted
              ELSE req'.res.status = 429 /\ req'.res.resetTime = req.res.resetTime]_vars

\* a client with a limit of one comes back exactly one window after its
\* admission, which is the resetTime a rejection in between reports, and is
\* admitted
C27_Witness ==
    /\ Answered /\ req.rid = served /\ req.admitted
    /\ IP_RATE_LIMIT = 1
    /\ served >= 3
    /\ Len(CacheOf(admissions, req.clientIp)) = 2
    /\ admissions[req.clientIp][2] = admissions[req.clientIp][1] + WINDOW_MS
    /\ req.at = admissions[req.clientIp][2]
    /\ \A ip \in DOMAIN admissions : ip = req.clientIp

\* C28: a request that is not static is counted when it arrives, whatever
\* its route and whatever the handler then answers (also a 400 of
\* /api/ask-ai): unless it is rejected with 429 its timestamp is appended to
\* the caller's admissions; a request rejected with 429 is answered at once,
\* with no adapter invoked, no history read and no turn stored.
C28_AdmissionBeforeRouting ==
    /\ [][(Arrival /\ IP_RATE_LIMIT > 0 /\ req'.path.ext \notin AssetExtensions
           /\ ~(req'.path.method = "GET" /\ req'.path.exists)) =>
              LET ip == req'.clientIp
              IN IF Len(Recent(CacheOf(admissions, ip), now)) >= IP_RATE_LIMIT
                 THEN /\ req'.res.status = 429 /\ req'.pc = "done"
                      /\ admissions' = admissions
                      /\ store' = store
                 ELSE /\ req'.res.status # 429
                      /\ CacheOf(admissions', ip) = Append(CacheOf(admissions, ip), now)
                      /\ ipRequestCache'[ip][Len(ipRequestCache'[ip])] = now]_vars
    /\ []((req.pc # "idle" /\ req.res.status = 429) =>
            /\ req.invoked = <<>> /\ req.calls = <<>>
            /\ ~req.historyRead /\ ~req.admitted
            /\ \A row \in store : row.rid # req.rid)

\* an /api/ask-ai request with a blank prompt was answered 400 and used up
\* the caller's last unit
C28_Witness ==
    /\ Answered /\ req.rid = served
    /\ IsAskAi(req.path) /\ req.res.status = 400
    /\ IP_RATE_LIMIT = 2
    /\ Len(Recent(CacheOf(admissions, req.clientIp), now)) = 2
    /\ admissions[req.clientIp][2] = req.at

\* C29: the component never has two /api/ask-ai requests in flight: a
\* callAi invoked while an earlier request is pending sends nothing and
\* appends nothing.
C29_SingleFlight == Cardinality(InFlight(client)) <= 1

\* call k leaves its finally block in this step
Ends(k) == k \in InFlight(client) /\ client'.calls[k].pc = "done"

====
